---------------------------- MODULE Spec2Model ----------------------------
(***************************************************************************)
(* A model of src/fibonacci.py, a Streamlit page about the Fibonacci       *)
(* sequence.  Streamlit runs the script from top to bottom after every     *)
(* user interaction; the only state that survives a run is                 *)
(* st.session_state (the flag quiz_started and the values of the widgets   *)
(* that the run rendered).                                                 *)
(*                                                                         *)
(* Two specifications are given.                                           *)
(*   Spec    the page: one action per script run.  An interaction triggers *)
(*           a run; a button that changes the flag stops its run with      *)
(*           st.rerun(), and the run Streamlit then starts is the only     *)
(*           step that can follow.                                         *)
(*   SpecFn  the functions of the script (generate_fibonacci, fib_calc,    *)
(*           the 2D radius, the scoring loop) applied to arguments drawn   *)
(*           from bounded sets, including negative counts, which no        *)
(*           widget of the page supplies.                                  *)
(*                                                                         *)
(* Python integers are unbounded; the bounds below keep every Fibonacci    *)
(* number of the model far below 2^31.  Angles, heights and the Cartesian  *)
(* coordinates of the plots are floating-point values that no checked      *)
(* property reads; they are not modelled.  A radius is kept as an exact    *)
(* fraction num/den.                                                       *)
(***************************************************************************)
EXTENDS Integers, Sequences, FiniteSets, TLC

VARIABLES
    quiz_started,   \* st.session_state.quiz_started
    slider_2d,      \* value of the slider with key "2d_slider"
    slider_3d,      \* value of the slider with key "3d_slider"
    n_terms,        \* value of the calculator's slider
    n,              \* value of the number input "Calculate F_n where n ="
    quiz_choice,    \* value of the radio "Choose a quiz type:"
    user_answers,   \* question number -> value of the radio q<number>
    answers,        \* content of the text input, a sequence of characters
    event,          \* the interaction that triggered the last script run
    page,           \* what the last script run rendered
    fn,             \* SpecFn: the function that was called
    arg_n,          \* SpecFn: its integer argument
    arg_attempt,    \* SpecFn: its answer-mapping argument
    result          \* SpecFn: what the call produced

vars == <<quiz_started, slider_2d, slider_3d, n_terms, n, quiz_choice,
          user_answers, answers, event, page, fn, arg_n, arg_attempt, result>>

uiVars == <<quiz_started, slider_2d, slider_3d, n_terms, n, quiz_choice,
            user_answers, answers, event, page>>

fnVars == <<fn, arg_n, arg_attempt, result>>

----------------------------------------------------------------------------
(* Bounds of the model.                                                    *)

\* SpecFn calls the integer functions with arguments in -MaxNeg .. MaxN.
MaxN == 14
MaxNeg == 3
\* A slider is moved to its minimum or to within SliderSpan of its default.
SliderSpan == 2
\* The radios are set to selections that differ in at most MaxChanged
\* questions from the default selection or from the answer key.
MaxChanged == 3
\* The text input holds at most MaxTextLen typed characters (the sample
\* texts below are entered whole).
MaxTextLen == 5

----------------------------------------------------------------------------
(* Program constants.                                                      *)

TermsMin == 1
TermsMax == 50
TermsDefault == 10
Slider2DMinOfTerms == TermsMin
Slider2DMin == 5
Slider2DMax == 50
Slider2DDefault == 10
Slider3DMin == 5
Slider3DMax == 50
Slider3DDefault == 15
NInputMin == 0
NInputMax == 20
NInputDefault == 5
RadiusScale == 5
ScoreDenominator == 10
PercentPerPoint == 10
PerfectScore == 10
GoodScore == 7
PatternArity == 3

MultipleChoice == "Multiple Choice (15 Questions)"
PatternRecognition == "Pattern Recognition"

----------------------------------------------------------------------------
(* generate_fibonacci and fib_calc.                                        *)

\* The loop of generate_fibonacci with k iterations left: range(n) is empty
\* for n <= 0.
RECURSIVE GenLoop(_, _, _, _)
GenLoop(k, a, b, sequence) ==
    IF k <= 0 THEN sequence
    ELSE GenLoop(k - 1, b, a + b, Append(sequence, a))

generate_fibonacci_from_one(count) == GenLoop(count, 1, 1, <<>>)

generate_fibonacci(count) == GenLoop(count, 0, 1, <<>>)

\* The loop of fib_calc with k iterations left; the function returns a.
RECURSIVE CalcLoop(_, _, _)
CalcLoop(k, a, b) ==
    IF k <= 0 THEN a
    ELSE CalcLoop(k - 1, b, a + b)

fib_calc_returns_b(count) == CalcLoop(count + 1, 0, 1)

fib_calc(count) == CalcLoop(count, 0, 1)

----------------------------------------------------------------------------
(* The radius of the plotted points.                                       *)

\* Python's max of a non-empty list.
RECURSIVE MaxFrom(_, _, _)
MaxFrom(s, i, m) ==
    IF i > Len(s) THEN m
    ELSE MaxFrom(s, i + 1, IF s[i] > m THEN s[i] ELSE m)

Max(s) == MaxFrom(s, 2, s[1])

\* A float as an exact fraction.  numpy divides by zero without raising:
\* 0/0 is nan (num = 0, den = 0) and x/0 with x > 0 is inf (num > 0,
\* den = 0); multiplying either by a positive number leaves it as it is.
Frac(num, den) == [num |-> num, den |-> den]

IsFinite(r) == r.den > 0

IsNaN(r) == r.den = 0 /\ r.num = 0

AtMost(r, k) == IsFinite(r) /\ r.num <= k * r.den

IsZero(r) == IsFinite(r) /\ r.num = 0

\* radius = np.array(fib) / max(fib) * 5.  max([]) raises ValueError.
Radius2D(fib) ==
    IF fib = <<>>
    THEN [status |-> "ValueError", value |-> <<>>]
    ELSE [status |-> "ok",
          value |-> [i \in 1..Len(fib) |->
                        Frac(fib[i] * RadiusScale, Max(fib))]]

Radius3DNormalized(fib) ==
    [i \in 1..Len(fib) |-> Frac(fib[i] * RadiusScale, Max(fib))]

\* x = fib * np.cos(theta), y = fib * np.sin(theta): the radius of an
\* original point of the 3D plot is the Fibonacci number itself.
Radius3D(fib) == [i \in 1..Len(fib) |-> Frac(fib[i], 1)]

----------------------------------------------------------------------------
(* The multiple-choice quiz.  The option strings are those of the source   *)
(* with their non-ASCII characters transliterated (F\_n for F-subscript-n, *)
(* phi, pi, sqrt, x for the multiplication sign); the transliteration is   *)
(* one-to-one on the strings of the table, and the script only compares    *)
(* them for equality.                                                      *)

Question(number, options, correct) ==
    [number |-> number, options |-> options, correct |-> correct]

questions == <<
    Question(1, <<"Previous number + 2", "Sum of two preceding numbers",
                  "Previous number x 1.618", "n^2 - 1">>,
             "Sum of two preceding numbers"),
    Question(2, <<"0 and 1", "1 and 1", "1 and 2", "2 and 3">>,
             "0 and 1"),
    Question(3, <<"pi (3.1416...)", "Golden Ratio (1.618...)",
                  "Euler's Number (2.718...)", "sqrt2 (1.414...)">>,
             "Golden Ratio (1.618...)"),
    Question(4, <<"Flower petal counts", "Hurricane spiral patterns",
                  "Atomic electron configurations",
                  "Pineapple spiral patterns">>,
             "Atomic electron configurations"),
    Question(5, <<"Same as Fn", "(-1)^(n+1)Fn", "Fn/phi", "Undefined">>,
             "(-1)^(n+1)Fn"),
    Question(6, <<"Golden ratio approximation", "Exact Fibonacci numbers",
                  "Prime numbers in the sequence",
                  "Sum of first n Fibonacci numbers">>,
             "Exact Fibonacci numbers"),
    Question(7, <<"Same recurrence with different starting points",
                  "Squares of Fibonacci numbers",
                  "Every 3rd Fibonacci number", "No relation">>,
             "Same recurrence with different starting points"),
    Question(8, <<"Equals Fn x F(n+1)", "Always prime",
                  "Forms geometric progression", "Equals phi^n">>,
             "Equals Fn x F(n+1)"),
    Question(9, <<"Always even", "Always odd", "Always prime",
                  "Always square">>,
             "Always even"),
    Question(10, <<"F(n+m)", "F_gcd(n,m)", "gcd(n,m)", "Always 1">>,
             "F_gcd(n,m)") >>

QuestionNumbers == {questions[i].number : i \in 1..Len(questions)}

QuestionOf(k) ==
    questions[CHOOSE i \in 1..Len(questions) : questions[i].number = k]

\* user_answers as the display loop builds it when no radio was touched:
\* st.radio returns the first option.
DefaultAnswers == [k \in QuestionNumbers |-> QuestionOf(k).options[1]]

\* The selection that answers every question correctly.
AnswerKey == [k \in QuestionNumbers |-> QuestionOf(k).correct]

WrongAnswer(number, given, correct) ==
    [Question |-> number, YourAnswer |-> given, CorrectAnswer |-> correct]

CollectAnswersByIndex(qs, radios) ==
    [k \in 0..(Len(qs) - 1) |-> radios[qs[k + 1].number]]

\* The loop "for q in questions" that renders the radios: user_answers gets
\* one entry per question, keyed by the question's number, holding the value
\* of that question's radio.
CollectAnswers(qs, radios) ==
    [k \in {qs[i].number : i \in 1..Len(qs)} |-> radios[k]]

\* The loop "for q in questions" of the Check Answers handler, at question
\* i.  user_answers[q['number']] raises KeyError when the key is missing,
\* which ends the handler.
RECURSIVE ScoreFrom(_, _, _, _, _)
ScoreFrom(qs, ua, i, score, wrong_answers) ==
    IF i > Len(qs)
    THEN [status |-> "ok", score |-> score, wrong_answers |-> wrong_answers]
    ELSE IF qs[i].number \notin DOMAIN ua
    THEN [status |-> "KeyError", score |-> score,
          wrong_answers |-> wrong_answers]
    ELSE IF ua[qs[i].number] = qs[i].correct
    THEN ScoreFrom(qs, ua, i + 1, score + 1, wrong_answers)
    ELSE ScoreFrom(qs, ua, i + 1, score,
                   Append(wrong_answers,
                          WrongAnswer(qs[i].number, ua[qs[i].number],
                                      qs[i].correct)))

ScoreLoopCountsAll(qs, ua) ==
    [status |-> "ok", score |-> Len(qs),
     wrong_answers |-> ScoreFrom(qs, ua, 1, 0, <<>>).wrong_answers]

ScoreLoop(qs, ua) == ScoreFrom(qs, ua, 1, 0, <<>>)

ScoreMessageOutOfTitle(score) ==
    [score |-> score, denominator |-> 15, percent |-> score * PercentPerPoint]

\* st.success(f"Your score: {score}/10 ({score * 10}%)")
ScoreMessage(score) ==
    [score |-> score, denominator |-> ScoreDenominator,
     percent |-> score * PercentPerPoint]

\* The message chosen by "if score == 10 ... elif score >= 7 ... else".
Verdict(score) ==
    IF score = PerfectScore THEN "Perfect! Fibonacci Master!"
    ELSE IF score >= GoodScore
    THEN "Good job! You know your Fibonacci facts!"
    ELSE "Keep learning about this fascinating sequence!"

\* Nothing of the score is displayed: the handler did not run.
NoScore ==
    [status |-> "ok", shown |-> FALSE, message |-> ScoreMessage(0),
     verdict |-> "", review |-> FALSE, wrong_answers |-> <<>>]

\* What the Check Answers handler displays.  A KeyError raised in the loop
\* ends the handler before st.success: no score, no verdict, no review.
CheckAnswersOutput(qs, ua) ==
    LET r == ScoreLoop(qs, ua)
    IN  IF r.status = "KeyError"
        THEN [status |-> "KeyError", shown |-> FALSE,
              message |-> ScoreMessage(0), verdict |-> "",
              review |-> FALSE, wrong_answers |-> <<>>]
        ELSE [status |-> "ok", shown |-> TRUE,
              message |-> ScoreMessage(r.score),
              verdict |-> Verdict(r.score),
              review |-> r.wrong_answers # <<>>,
              wrong_answers |-> r.wrong_answers]

----------------------------------------------------------------------------
(* Pattern recognition.  A text is a sequence of characters, each a       *)
(* one-character string; a character that cannot be written in a string of *)
(* this module is named by its code point, "U+3000".                       *)

\* The characters str.split() separates on: those for which str.isspace()
\* holds.  ASCII: space, \t, \n, \r, \f, vertical tab (U+000B) and the
\* separators U+001C to U+001F.
AsciiWhitespace == {" ", "\t", "\n", "\r", "\f"}

\* Vertical tab, U+001C to U+001F, U+0085 (next line), U+00A0 (no-break
\* space) and U+1680 (ogham space mark), written as themselves.
WrittenWhitespace ==
    {"", "", "", "", "", "", " ", " "}

\* The whitespace outside printable ASCII, by code point.
NamedWhitespace ==
    {"U+000B", "U+001C", "U+001D", "U+001E", "U+001F", "U+0085",
     "U+00A0", "U+1680", "U+2000", "U+2001", "U+2002", "U+2003",
     "U+2004", "U+2005", "U+2006", "U+2007", "U+2008", "U+2009",
     "U+200A", "U+2028", "U+2029", "U+202F", "U+205F", "U+3000"}

Whitespace == AsciiWhitespace \cup WrittenWhitespace \cup NamedWhitespace

IsSpace(c) == c \in Whitespace

\* str.split() with no argument: the maximal runs of non-whitespace.
RECURSIVE SplitFrom(_, _, _, _)
SplitFrom(s, i, cur, toks) ==
    IF i > Len(s)
    THEN IF cur = <<>> THEN toks ELSE Append(toks, cur)
    ELSE IF IsSpace(s[i])
    THEN SplitFrom(s, i + 1, <<>>,
                   IF cur = <<>> THEN toks ELSE Append(toks, cur))
    ELSE SplitFrom(s, i + 1, Append(cur, s[i]), toks)

Split(s) == SplitFrom(s, 1, <<>>, <<>>)

correct_ans == << <<"1", "3">>, <<"2", "1">>, <<"3", "4">> >>

PatternCheckWarnsOnEmpty(text) ==
    IF Len(Split(text)) # PatternArity THEN "warning"
    ELSE IF Split(text) = correct_ans THEN "success"
    ELSE "error"

\* The block under st.text_input: nothing is displayed for the empty
\* string ("if answers:"), a warning for a token count other than 3,
\* success or error otherwise.
PatternCheck(text) ==
    IF text = <<>> THEN "none"
    ELSE IF Len(Split(text)) # PatternArity THEN "warning"
    ELSE IF Split(text) = correct_ans THEN "success"
    ELSE "error"

----------------------------------------------------------------------------
(* One run of the script.                                                  *)

ReadyLabel == "I'm ready for quiz!"
BackLabel == "Back to Info"

\* Whether the run reaches st.rerun(): the clicked button is one the run
\* renders, "I'm ready for quiz!" while the flag is false (lines 180-183),
\* "Back to Info" while it is true (lines 334-336).
Reruns(qs, clicked) ==
    \/ (~qs /\ clicked = ReadyLabel)
    \/ (qs /\ clicked = BackLabel)

\* st.session_state.quiz_started when the run ends.
FlagAfter(qs, clicked) ==
    IF ~qs /\ clicked = ReadyLabel THEN TRUE
    ELSE IF qs /\ clicked = BackLabel THEN FALSE
    ELSE qs

SectionsInfoAlways(qs, qc, clicked) ==
    {"title", "info", "visual", "calculator"}
    \cup (IF ~qs THEN {"ready_button"}
          ELSE {"quiz", "back_button"}
               \cup (IF qc = MultipleChoice THEN {"multiple_choice"}
                     ELSE {"pattern"}))
    \cup (IF Reruns(qs, clicked) THEN {} ELSE {"fun_fact"})

\* The parts of the page a run renders: the title, the block under
\* "if not st.session_state.quiz_started:" (the expander, the two plots, the
\* calculator), then either the button "I'm ready for quiz!" or the quiz
\* with the button "Back to Info", and the closing fact unless st.rerun()
\* stopped the run before it.
Sections(qs, qc, clicked) ==
    {"title"}
    \cup (IF ~qs THEN {"info", "visual", "calculator"} ELSE {})
    \cup (IF ~qs THEN {"ready_button"}
          ELSE {"quiz", "back_button"}
               \cup (IF qc = MultipleChoice THEN {"multiple_choice"}
                     ELSE {"pattern"}))
    \cup (IF Reruns(qs, clicked) THEN {} ELSE {"fun_fact"})

NoCalc == [shown |-> FALSE, n |-> 0, value |-> 0]

\* The page one run renders when it starts with flag qs and the given
\* widget values; clicked is the button whose click triggered the run
\* ("none" for a widget change or a rerun).  complete is false when the run
\* was stopped by st.rerun().
RunScript(qs, s2, s3, nt, nn, qc, ua, ans, clicked) ==
    [sections |-> Sections(qs, qc, clicked),
     complete |-> ~Reruns(qs, clicked),
     fig_2d |-> IF ~qs THEN Radius2D(generate_fibonacci(s2)).value ELSE <<>>,
     fig_3d |-> IF ~qs THEN Radius3D(generate_fibonacci(s3)) ELSE <<>>,
     fib_sequence |-> IF ~qs THEN generate_fibonacci(nt) ELSE <<>>,
     calc |-> IF ~qs /\ clicked = "Calculate"
              THEN [shown |-> TRUE, n |-> nn, value |-> fib_calc(nn)]
              ELSE NoCalc,
     score |-> IF qs /\ qc = MultipleChoice /\ clicked = "Check Answers"
               THEN CheckAnswersOutput(questions,
                                       CollectAnswers(questions, ua))
               ELSE NoScore,
     pattern |-> IF qs /\ qc = PatternRecognition
                 THEN PatternCheck(ans)
                 ELSE "none"]

----------------------------------------------------------------------------
(* The inputs a session explores.                                          *)

Positions(lo, hi, default) ==
    {v \in lo..hi : v = lo \/ (v - default <= SliderSpan
                               /\ default - v <= SliderSpan)}

Distance(ua, base) == Cardinality({k \in QuestionNumbers : ua[k] # base[k]})

WithinReach(ua) ==
    Distance(ua, DefaultAnswers) <= MaxChanged
    \/ Distance(ua, AnswerKey) <= MaxChanged

Alphabet == {" ", "1", "2", "3", "4"}

SampleTexts ==
    { <<"1", "3", " ", "2", "1", " ", "3", "4">>,
      <<" ", "1", "3", " ", " ", "2", "1", "\t", "3", "4", " ">>,
      <<"1", "3", "\n", "2", "1", "\n", "3", "4">>,
      <<"1", "3", " ", "2", "1", " ", "3", "4", "\n">>,
      <<"1", "3", "\r", "2", "1", "\f", "3", "4">>,
      <<"1", "3", "U+3000", "2", "1", "U+00A0", "3", "4">>,
      <<"1", "3", " ", "2", "1", " ", "3", "5">>,
      <<"3", "4", " ", "2", "1", " ", "1", "3">>,
      <<"1", "3", " ", "2", "1", " ", "3", "4", " ", "5", "5">>,
      <<"1", "3", ",", "2", "1", ",", "3", "4">>,
      <<"1", "3", "2", "1", "3", "4">>,
      <<"1", "2", "\n">>,
      <<" ", "\t", "\n">> }

\* The texts that can follow text: one more character, one fewer, the empty
\* text, or a sample text.
Edits(text) ==
    (IF Len(text) < MaxTextLen
     THEN {Append(text, c) : c \in Alphabet} ELSE {})
    \cup (IF Len(text) > 0 /\ Len(text) <= MaxTextLen
          THEN {SubSeq(text, 1, Len(text) - 1)} ELSE {})
    \cup {<<>>}
    \cup SampleTexts

----------------------------------------------------------------------------
(* Spec: the page.  Every step is one run of the script.  A run triggered  *)
(* by an interaction reaches the end of the script unless a button's       *)
(* handler changes the flag and calls st.rerun(): that run stops there,    *)
(* with the half it rendered still on the page, and Streamlit starts the   *)
(* next run at once.  Until that run has rendered the page no other step   *)
(* is taken: an interaction with the stale page would be answered by the   *)
(* same run, which renders none of the stale page's widgets and so reads   *)
(* none of their values.                                                   *)

FnIdle ==
    /\ fn = "none"
    /\ arg_n = 0
    /\ arg_attempt = DefaultAnswers
    /\ result = [status |-> "ok", value |-> <<>>]

\* The first run of a session: quiz_started is set to False, every widget
\* takes its default.
Init ==
    /\ quiz_started = FALSE
    /\ slider_2d = Slider2DDefault
    /\ slider_3d = Slider3DDefault
    /\ n_terms = TermsDefault
    /\ n = NInputDefault
    /\ quiz_choice = MultipleChoice
    /\ user_answers = DefaultAnswers
    /\ answers = <<>>
    /\ event = "start"
    /\ page = RunScript(FALSE, Slider2DDefault, Slider3DDefault, TermsDefault,
                        NInputDefault, MultipleChoice, DefaultAnswers, <<>>,
                        "none")
    /\ FnIdle

Widgets(s2, s3, nt, nn, qc, ua, ans) ==
    [slider_2d |-> s2, slider_3d |-> s3, n_terms |-> nt, n |-> nn,
     quiz_choice |-> qc, user_answers |-> ua, answers |-> ans]

\* The widget values a run leaves: a widget the run renders keeps its
\* value, one it does not render loses it and takes its default when it is
\* rendered again.
Kept(qs, w, clicked) ==
    LET rendered == Sections(qs, w.quiz_choice, clicked)
    IN  [slider_2d |-> IF "visual" \in rendered THEN w.slider_2d
                       ELSE Slider2DDefault,
         slider_3d |-> IF "visual" \in rendered THEN w.slider_3d
                       ELSE Slider3DDefault,
         n_terms |-> IF "calculator" \in rendered THEN w.n_terms
                     ELSE TermsDefault,
         n |-> IF "calculator" \in rendered THEN w.n ELSE NInputDefault,
         quiz_choice |-> IF "quiz" \in rendered THEN w.quiz_choice
                         ELSE MultipleChoice,
         user_answers |-> IF "multiple_choice" \in rendered
                          THEN w.user_answers ELSE DefaultAnswers,
         answers |-> IF "pattern" \in rendered THEN w.answers ELSE <<>>]

PageOf(qs, w, clicked) ==
    RunScript(qs, w.slider_2d, w.slider_3d, w.n_terms, w.n, w.quiz_choice,
              w.user_answers, w.answers, clicked)

\* One run, from the current flag and the widget values given.  A button's
\* handler may change the flag.
Run(s2, s3, nt, nn, qc, ua, ans, ev, clicked) ==
    LET w == Widgets(s2, s3, nt, nn, qc, ua, ans)
        kept == Kept(quiz_started, w, clicked)
    IN  /\ quiz_started' = FlagAfter(quiz_started, clicked)
        /\ page' = PageOf(quiz_started, w, clicked)
        /\ slider_2d' = kept.slider_2d
        /\ slider_3d' = kept.slider_3d
        /\ n_terms' = kept.n_terms
        /\ n' = kept.n
        /\ quiz_choice' = kept.quiz_choice
        /\ user_answers' = kept.user_answers
        /\ answers' = kept.answers
        /\ event' = ev
        /\ UNCHANGED fnVars

\* The run st.rerun() requested is the next run: nothing else happens until
\* the page of a run that reached its end is on the screen.
Settled == page.complete

\* A run that follows a change of one widget of the information page.
InfoRun(s2, s3, nt, nn, ev, clicked) ==
    /\ Settled
    /\ "visual" \in page.sections
    /\ Run(s2, s3, nt, nn, quiz_choice, user_answers, answers, ev, clicked)

MoveSlider2D ==
    \E v \in Positions(Slider2DMin, Slider2DMax, Slider2DDefault) :
        /\ v # slider_2d
        /\ InfoRun(v, slider_3d, n_terms, n, "2d_slider", "none")

MoveSlider3D ==
    \E v \in Positions(Slider3DMin, Slider3DMax, Slider3DDefault) :
        /\ v # slider_3d
        /\ InfoRun(slider_2d, v, n_terms, n, "3d_slider", "none")

MoveTermsSlider ==
    \E v \in Positions(TermsMin, TermsMax, TermsDefault) :
        /\ v # n_terms
        /\ InfoRun(slider_2d, slider_3d, v, n, "terms_slider", "none")

SetN ==
    \E v \in Positions(NInputMin, NInputMax, NInputDefault) :
        /\ v # n
        /\ InfoRun(slider_2d, slider_3d, n_terms, v, "number_input", "none")

Calculate ==
    /\ "calculator" \in page.sections
    /\ InfoRun(slider_2d, slider_3d, n_terms, n, "Calculate", "Calculate")

\* The button "I'm ready for quiz!": the run of the click sets the flag and
\* stops at st.rerun(), the information page still on the screen.
ReadyForQuiz ==
    /\ Settled
    /\ "ready_button" \in page.sections
    /\ Run(slider_2d, slider_3d, n_terms, n, quiz_choice, user_answers,
           answers, ReadyLabel, ReadyLabel)

\* The button "Back to Info": the run of the click clears the flag and
\* stops at st.rerun(), the quiz still on the screen.
BackToInfo ==
    /\ Settled
    /\ "back_button" \in page.sections
    /\ Run(slider_2d, slider_3d, n_terms, n, quiz_choice, user_answers,
           answers, BackLabel, BackLabel)

\* The run Streamlit starts after st.rerun() stopped the one before: it
\* starts from the changed flag and the widget values the stopped run left,
\* with no button clicked, and renders the other half.
Rerun ==
    /\ ~page.complete
    /\ Run(slider_2d, slider_3d, n_terms, n, quiz_choice, user_answers,
           answers, "rerun", "none")

\* A run that follows an interaction with the quiz.
QuizRun(qc, ua, ans, ev, clicked) ==
    /\ Settled
    /\ "quiz" \in page.sections
    /\ Run(slider_2d, slider_3d, n_terms, n, qc, ua, ans, ev, clicked)

ChooseQuizType ==
    \E c \in {MultipleChoice, PatternRecognition} :
        /\ c # quiz_choice
        /\ QuizRun(c, DefaultAnswers, <<>>, "quiz_type", "none")

SelectAnswer ==
    \E i \in 1..Len(questions) :
        \E o \in 1..Len(questions[i].options) :
            LET ua == [user_answers EXCEPT
                         ![questions[i].number] = questions[i].options[o]]
            IN  /\ "multiple_choice" \in page.sections
                /\ ua # user_answers
                /\ WithinReach(ua)
                /\ QuizRun(quiz_choice, ua, answers, "radio", "none")

CheckAnswers ==
    /\ "multiple_choice" \in page.sections
    /\ QuizRun(quiz_choice, user_answers, answers, "Check Answers",
               "Check Answers")

EnterText ==
    \E t \in Edits(answers) :
        /\ "pattern" \in page.sections
        /\ t # answers
        /\ QuizRun(quiz_choice, user_answers, t, "text_input", "none")

Next ==
    \/ MoveSlider2D
    \/ MoveSlider3D
    \/ MoveTermsSlider
    \/ SetN
    \/ Calculate
    \/ ReadyForQuiz
    \/ BackToInfo
    \/ Rerun
    \/ ChooseQuizType
    \/ SelectAnswer
    \/ CheckAnswers
    \/ EnterText

Spec == Init /\ [][Next]_vars

----------------------------------------------------------------------------
(* SpecFn: the functions of the script applied to drawn arguments.  A call *)
(* records the function, its argument and what it produced; the argument   *)
(* variable the call does not use is put back to its idle value.           *)

\* The settings of the radios that differ from base in at most one question.
OneChanged(base) ==
    {base}
    \cup UNION {{[base EXCEPT ![questions[i].number] = questions[i].options[j]] :
                   j \in 1..Len(questions[i].options)} :
                  i \in 1..Len(questions)}

\* The answer mappings given to the scoring code: those collected from the
\* default selection and from the answer key, each with at most one radio
\* set to another of its options.
Attempts ==
    {CollectAnswers(questions, radios) :
        radios \in OneChanged(DefaultAnswers) \cup OneChanged(AnswerKey)}

UiIdle ==
    /\ quiz_started = FALSE
    /\ slider_2d = Slider2DDefault
    /\ slider_3d = Slider3DDefault
    /\ n_terms = TermsDefault
    /\ n = NInputDefault
    /\ quiz_choice = MultipleChoice
    /\ user_answers = DefaultAnswers
    /\ answers = <<>>
    /\ event = "start"
    /\ page = RunScript(FALSE, Slider2DDefault, Slider3DDefault, TermsDefault,
                        NInputDefault, MultipleChoice, DefaultAnswers, <<>>,
                        "none")

InitFn == UiIdle /\ FnIdle

\* A call returns normally unless a statement of the function raises;
\* neither generate_fibonacci nor fib_calc has one that can.
Returned(value) == [status |-> "ok", value |-> value]

CallGenerateFibonacci ==
    \E k \in -MaxNeg..MaxN :
        /\ fn' = "generate_fibonacci"
        /\ arg_n' = k
        /\ result' = Returned(generate_fibonacci(k))
        /\ arg_attempt' = DefaultAnswers
        /\ UNCHANGED uiVars

CallFibCalc ==
    \E k \in -MaxNeg..MaxN :
        /\ fn' = "fib_calc"
        /\ arg_n' = k
        /\ result' = Returned(fib_calc(k))
        /\ arg_attempt' = DefaultAnswers
        /\ UNCHANGED uiVars

\* The 2D radius of the first k Fibonacci numbers, k a position of the 2D
\* slider.
CallRadius2D ==
    \E k \in Slider2DMin..MaxN :
        /\ fn' = "radius_2d"
        /\ arg_n' = k
        /\ result' = Radius2D(generate_fibonacci(k))
        /\ arg_attempt' = DefaultAnswers
        /\ UNCHANGED uiVars

\* The scoring loop on an answer mapping.
CallScoreLoop ==
    \E at \in Attempts :
        /\ fn' = "score"
        /\ arg_attempt' = at
        /\ result' = ScoreLoop(questions, at)
        /\ arg_n' = 0
        /\ UNCHANGED uiVars

\* The whole Check Answers handler on an answer mapping.
CallCheckAnswers ==
    \E at \in Attempts :
        /\ fn' = "check_answers"
        /\ arg_attempt' = at
        /\ result' = CheckAnswersOutput(questions, at)
        /\ arg_n' = 0
        /\ UNCHANGED uiVars

NextFn ==
    \/ CallGenerateFibonacci
    \/ CallFibCalc
    \/ CallRadius2D
    \/ CallScoreLoop
    \/ CallCheckAnswers

SpecFn == InitFn /\ [][NextFn]_vars

----------------------------------------------------------------------------
(* Properties of generate_fibonacci and fib_calc (SpecFn).                 *)

\* C1: for every count N >= 0 generate_fibonacci(N) has exactly N elements,
\* begins 0, 1 and satisfies element i = element(i-1) + element(i-2); for
\* N = 10 it is 0, 1, 1, 2, 3, 5, 8, 13, 21, 34.
C1_GenerateSequence ==
    (fn = "generate_fibonacci" /\ arg_n >= 0) =>
        /\ result.status = "ok"
        /\ Len(result.value) = arg_n
        /\ (arg_n = 0 => result.value = <<>>)
        /\ (arg_n >= 1 => result.value[1] = 0)
        /\ (arg_n >= 2 => result.value[2] = 1)
        /\ \A i \in 3..arg_n :
              result.value[i] = result.value[i - 1] + result.value[i - 2]
        /\ (arg_n = 10 => result.value = <<0, 1, 1, 2, 3, 5, 8, 13, 21, 34>>)

C1_Witness ==
    /\ fn = "generate_fibonacci"
    /\ arg_n = 10
    /\ result.value = <<0, 1, 1, 2, 3, 5, 8, 13, 21, 34>>

\* C2: for every n >= 0 fib_calc(n) is the last element of
\* generate_fibonacci(n + 1).
C2_NthValueIsLastElement ==
    (fn = "fib_calc" /\ arg_n >= 0) =>
        /\ result.status = "ok"
        /\ Len(generate_fibonacci(arg_n + 1)) = arg_n + 1
        /\ result.value = generate_fibonacci(arg_n + 1)[arg_n + 1]

C2_Witness ==
    /\ fn = "fib_calc"
    /\ arg_n = 10
    /\ result.value = 55

\* C3: generate_fibonacci and fib_calc reject every negative argument: for
\* n < 0 neither returns an ordinary sequence or integer.
C3_RejectsNegative ==
    (fn \in {"generate_fibonacci", "fib_calc"} /\ arg_n < 0) =>
        result.status # "ok"

----------------------------------------------------------------------------
(* Properties of the page (Spec).                                          *)

\* The questions answered correctly and incorrectly by the current radios.
RightQuestions ==
    {k \in QuestionNumbers : user_answers[k] = QuestionOf(k).correct}

WrongQuestions == QuestionNumbers \ RightQuestions

PositionOf(k) == CHOOSE i \in 1..Len(questions) : questions[i].number = k

\* C7: the 2D projection never divides by zero: a sequence whose maximum is
\* 0 would get radius 0 for every point, and no point count the page feeds
\* to the projection makes the divisor max(fib) equal to 0 (the slider's
\* minimum is 5, so the sequence has five or more elements and a maximum of
\* 3 or more); every radius plotted is a finite number between 0 and 5.
C7_DivisorNeverZero ==
    "visual" \in page.sections =>
        LET fib == generate_fibonacci(slider_2d)
        IN  /\ Len(fib) = slider_2d
            /\ Len(page.fig_2d) = slider_2d
            /\ Max(fib) # 0
            /\ Max(fib) >= 3
            /\ \A i \in 1..Len(page.fig_2d) :
                  /\ IsFinite(page.fig_2d[i])
                  /\ AtMost(page.fig_2d[i], RadiusScale)
                  /\ page.fig_2d[i].num >= 0
            /\ (Max(fib) = 0 =>
                   \A i \in 1..Len(page.fig_2d) : IsZero(page.fig_2d[i]))

C7_Witness ==
    /\ "visual" \in page.sections
    /\ event = "2d_slider"
    /\ slider_2d = Slider2DMin
    /\ Max(generate_fibonacci(slider_2d)) = 3
    /\ page.fig_2d[Len(page.fig_2d)] = Frac(3 * RadiusScale, 3)

\* C4: Check Answers yields a score equal to the number of questions whose
\* selected option equals the correct option, and a list of exactly the
\* other questions, in question order, each with the given and the correct
\* answer; all correct gives score = total and an empty list, exactly one
\* wrong gives score = total - 1 and one entry naming that question.
C4_ScoreCountsMatches ==
    page.score.shown =>
        LET w == page.score.wrong_answers
            score == page.score.message.score
            total == Len(questions)
        IN  /\ score = Cardinality(RightQuestions)
            /\ Len(w) = Cardinality(WrongQuestions)
            /\ {w[i].Question : i \in 1..Len(w)} = WrongQuestions
            /\ \A i \in 1..Len(w) :
                  /\ w[i].YourAnswer = user_answers[w[i].Question]
                  /\ w[i].CorrectAnswer = QuestionOf(w[i].Question).correct
            /\ \A i, j \in 1..Len(w) :
                  i < j => PositionOf(w[i].Question) < PositionOf(w[j].Question)
            /\ page.score.review = (WrongQuestions # {})
            /\ (WrongQuestions = {} => score = total /\ w = <<>>)
            /\ (Cardinality(WrongQuestions) = 1 =>
                   /\ score = total - 1
                   /\ Len(w) = 1
                   /\ w[1].Question \in WrongQuestions)

C4_Witness ==
    /\ page.score.shown
    /\ event = "Check Answers"
    /\ Cardinality(WrongQuestions) = 1
    /\ Len(page.score.wrong_answers) = 1

\* C6: in every scoring result the score does not exceed the total, and the
\* total shown (the denominator of "Your score", the score that earns the
\* perfect-score message) is the number of questions in the list.
C6_ScoreWithinTotal ==
    page.score.shown =>
        /\ page.score.message.score <= page.score.message.denominator
        /\ page.score.message.denominator = Len(questions)
        /\ (page.score.verdict = "Perfect! Fibonacci Master!")
              = (page.score.message.score = Len(questions))
        /\ (page.score.verdict = "Perfect! Fibonacci Master!")
              = (WrongQuestions = {})

C6_Witness ==
    /\ page.score.shown
    /\ event = "Check Answers"
    /\ page.score.message.score = Len(questions)
    /\ page.score.message.denominator = Len(questions)

\* The number of maximal runs of non-whitespace characters of a text.
TokenCount(s) ==
    Cardinality({i \in 1..Len(s) :
                    ~IsSpace(s[i]) /\ (i = 1 \/ IsSpace(s[i - 1]))})

\* The text is 13, 21 and 34 in this order, separated by whitespace, with
\* nothing but whitespace around them.
SpellsKey(s) ==
    \E i, j, k \in 1..Len(s) :
        /\ i + 3 <= j /\ j + 3 <= k /\ k + 1 <= Len(s)
        /\ s[i] = "1" /\ s[i + 1] = "3"
        /\ s[j] = "2" /\ s[j + 1] = "1"
        /\ s[k] = "3" /\ s[k + 1] = "4"
        /\ \A m \in 1..Len(s) \ {i, i + 1, j, j + 1, k, k + 1} : IsSpace(s[m])

\* C5, as claimed: every submission that does not yield exactly 3 tokens,
\* the empty submission included, is reported as a validation failure and
\* not scored; one with exactly 3 tokens is valid, and correct if and only
\* if its tokens are 13, 21, 34.
C5_Original ==
    "pattern" \in page.sections =>
        /\ (TokenCount(answers) # 3 => page.pattern = "warning")
        /\ (TokenCount(answers) = 3 =>
               page.pattern = IF SpellsKey(answers) THEN "success" ELSE "error")

\* C5, amended: the empty submission is not reported at all; every other
\* submission that does not yield exactly 3 tokens is reported as a
\* validation failure and not scored; one with exactly 3 tokens is valid,
\* and correct if and only if its tokens are 13, 21, 34.
C5_Amended ==
    "pattern" \in page.sections =>
        /\ (answers = <<>> => page.pattern = "none")
        /\ (answers # <<>> /\ TokenCount(answers) # 3 =>
               page.pattern = "warning")
        /\ (TokenCount(answers) = 3 =>
               page.pattern = IF SpellsKey(answers) THEN "success" ELSE "error")

C5_Witness ==
    /\ "pattern" \in page.sections
    /\ event = "text_input"
    /\ answers = <<"1", "3", "U+3000", "2", "1", "U+00A0", "3", "4">>
    /\ page.pattern = "success"

\* C9, as claimed: in the 2D and in the 3D plot the radius of every original
\* point is the sequence value normalized against the maximum, hence at
\* most the fixed scale (5) whatever the point count.
C9_Original ==
    "visual" \in page.sections =>
        /\ \A i \in 1..Len(page.fig_2d) : AtMost(page.fig_2d[i], RadiusScale)
        /\ \A i \in 1..Len(page.fig_3d) : AtMost(page.fig_3d[i], RadiusScale)

\* C9, amended: in the 2D plot the radius of point i is value i divided by
\* the maximum and multiplied by 5, hence at most 5, and 5 for the largest
\* value; in the 3D plot the radius of point i is value i itself, which is
\* not normalized and exceeds 5 from the seventh point on.
C9_Amended ==
    "visual" \in page.sections =>
        LET fib2 == generate_fibonacci(slider_2d)
            fib3 == generate_fibonacci(slider_3d)
        IN  /\ Len(page.fig_2d) = slider_2d
            /\ \A i \in 1..Len(page.fig_2d) :
                  /\ IsFinite(page.fig_2d[i])
                  /\ page.fig_2d[i].num * Max(fib2)
                        = RadiusScale * fib2[i] * page.fig_2d[i].den
                  /\ AtMost(page.fig_2d[i], RadiusScale)
            /\ \E i \in 1..Len(page.fig_2d) :
                  page.fig_2d[i].num = RadiusScale * page.fig_2d[i].den
            /\ Len(page.fig_3d) = slider_3d
            /\ \A i \in 1..Len(page.fig_3d) :
                  /\ IsFinite(page.fig_3d[i])
                  /\ page.fig_3d[i].num = fib3[i] * page.fig_3d[i].den
                  /\ (i >= 7 => ~AtMost(page.fig_3d[i], RadiusScale))

C9_Witness ==
    /\ "visual" \in page.sections
    /\ event = "3d_slider"
    /\ slider_3d = Slider3DDefault + 1
    /\ \E i \in 1..Len(page.fig_3d) : ~AtMost(page.fig_3d[i], RadiusScale)
    /\ \A i \in 1..Len(page.fig_2d) : AtMost(page.fig_2d[i], RadiusScale)

\* What a page shows of the two halves and of the two buttons, against the
\* flag.
ShowsHalfOfFlag ==
    /\ ("ready_button" \in page.sections) = ~quiz_started
    /\ ("back_button" \in page.sections) = quiz_started
    /\ ("info" \in page.sections) = ~quiz_started
    /\ ("visual" \in page.sections) = ~quiz_started
    /\ ("calculator" \in page.sections) = ~quiz_started
    /\ ("quiz" \in page.sections) = quiz_started

\* The flag changes only by its button, pressed on a page that offers it;
\* pressed while the flag has the other value, the button changes it; no
\* other interaction changes it.
FlagStep ==
    /\ (~quiz_started /\ quiz_started') =>
          (event' = ReadyLabel /\ "ready_button" \in page.sections)
    /\ (quiz_started /\ ~quiz_started') =>
          (event' = BackLabel /\ "back_button" \in page.sections)
    /\ (event' = ReadyLabel /\ ~quiz_started) => quiz_started'
    /\ (event' = BackLabel /\ quiz_started) => ~quiz_started'
    /\ (event' \notin {ReadyLabel, BackLabel}) =>
          (quiz_started' = quiz_started)

\* A run stopped by st.rerun() is followed by the run it requested and by
\* nothing else; that run reaches its end and leaves the flag as it is.
RerunFollows ==
    ~page.complete =>
        /\ event \in {ReadyLabel, BackLabel}
        /\ event' = "rerun"
        /\ page'.complete
        /\ quiz_started' = quiz_started

    /\ page.complete
    /\ "info" \in page.sections
    /\ "quiz" \notin page.sections
    /\ "ready_button" \in page.sections

============================================================================
